---- MODULE Spec2Model ----
(***************************************************************************)
(* A model of problemtools' gendata.py: the manifest walk, the generation  *)
(* engine (_run_single, _run_post_group, _generate_extensions,             *)
(* _execute_generator), the cleaner and the context-manager life cycle of  *)
(* GeneratorManifest, over a small file system.                            *)
(*                                                                         *)
(* Names are strings, paths are sequences of names relative to the         *)
(* problem's data directory (<<>> is the data directory itself), file      *)
(* contents are sequences of commands (the executions that produced them).  *)
(***************************************************************************)
EXTENDS Integers, Sequences, FiniteSets, TLC

(***************************************************************************)
(* Bounds                                                                  *)
(***************************************************************************)
\* number of program invocations (main) that follow one another on one tree
MaxRuns == 2
\* the ordinal of the generator execution that may exit non-zero lies in 0..MaxFail
MaxFail == 2

(***************************************************************************)
(* Strings                                                                 *)
(***************************************************************************)
CharAt(s, i) == SubSeq(s, i, i)

\* str.endswith
EndsWith(s, suf) ==
    /\ Len(s) >= Len(suf)
    /\ SubSeq(s, Len(s) - Len(suf) + 1, Len(s)) = suf

\* str.startswith
StartsWith(s, pre) ==
    /\ Len(s) >= Len(pre)
    /\ SubSeq(s, 1, Len(pre)) = pre

\* '.' in fname
HasDot(s) == \E i \in 1..Len(s) : CharAt(s, i) = "."

\* fname.split('.')[-1]
LastExt(s) ==
    IF HasDot(s)
    THEN LET k == CHOOSE i \in 1..Len(s) :
                    /\ CharAt(s, i) = "."
                    /\ \A j \in (i+1)..Len(s) : CharAt(s, j) # "."
         IN SubSeq(s, k + 1, Len(s))
    ELSE s

\* s[:-n] of Python (s[:-0] is the empty string)
DropLast(s, n) == IF n = 0 THEN "" ELSE SubSeq(s, 1, Len(s) - n)

AlnumChars ==
    {"a","b","c","d","e","f","g","h","i","j","k","l","m",
     "n","o","p","q","r","s","t","u","v","w","x","y","z",
     "A","B","C","D","E","F","G","H","I","J","K","L","M",
     "N","O","P","Q","R","S","T","U","V","W","X","Y","Z",
     "0","1","2","3","4","5","6","7","8","9"}

\* GeneratorManifest.key_regex: ^[a-zA-Z0-9][a-zA-Z0-9_.-]*[a-zA-Z0-9]$
key_regex(s) ==
    /\ Len(s) >= 2
    /\ CharAt(s, 1) \in AlnumChars
    /\ CharAt(s, Len(s)) \in AlnumChars
    /\ \A i \in 2..(Len(s) - 1) : CharAt(s, i) \in AlnumChars \cup {"_", ".", "-"}

\* shlex.split for commands without quoting: split on runs of blanks
RECURSIVE ShlexFrom(_, _, _)
ShlexFrom(s, i, cur) ==
    IF i > Len(s)
    THEN IF cur = "" THEN <<>> ELSE <<cur>>
    ELSE IF CharAt(s, i) = " "
         THEN IF cur = "" THEN ShlexFrom(s, i + 1, "")
                          ELSE <<cur>> \o ShlexFrom(s, i + 1, "")
         ELSE ShlexFrom(s, i + 1, cur \o CharAt(s, i))

ShlexSplit(s) == ShlexFrom(s, 1, "")

(***************************************************************************)
(* Paths                                                                   *)
(***************************************************************************)
\* os.path.join(path, name)
Join(path, name) == Append(path, name)

\* os.path.dirname; the data directory's parent is the problem directory
Dirname(path) == SubSeq(path, 1, Len(path) - 1)

\* os.path.basename
Basename(path) == path[Len(path)]

\* q is p or an ancestor of p
Under(p, q) == Len(q) <= Len(p) /\ SubSeq(p, 1, Len(q)) = q

(***************************************************************************)
(* The machine state the code of one handler works on.  A record s holds   *)
(*   dirs, files : the data tree (directories; regular files and content)  *)
(*   ws          : the entries of the per-run temporary workspace          *)
(*   cache       : self.generator_cache (program paths already compiled)   *)
(*   compiled    : history of the calls of program.compile()               *)
(*   log         : history of the calls of generator.run()                 *)
(*   touched     : history of the data-tree paths removed or written       *)
(*   pre         : the data tree when the current unit started             *)
(*   stagings    : history of the number of staging directories created    *)
(*   warnings    : history of the paths a warning was logged for           *)
(*   exc         : the exception that is propagating, "none" if none       *)
(* Every step is skipped while an exception propagates.                    *)
(***************************************************************************)
Raise(s, e) == IF s.exc = "none" THEN [s EXCEPT !.exc = e] ELSE s

\* os.path.isdir / isfile / exists on a data-tree path.  The problem
\* directory (the parent of <<>>) is a directory: Problem.__enter__ checked it.
IsDir(s, p) == p \in s.dirs
IsFile(s, p) == p \in DOMAIN s.files
Exists(s, p) == IsDir(s, p) \/ IsFile(s, p)
ParentIsDir(s, p) == p = <<>> \/ IsDir(s, Dirname(p))

\* shutil.rmtree(path)
Rmtree(s, p) ==
    IF s.exc # "none" THEN s
    ELSE IF ~IsDir(s, p) THEN Raise(s, "OSError")
    ELSE [s EXCEPT
            !.dirs = {d \in s.dirs : ~Under(d, p)},
            !.files = [f \in {g \in DOMAIN s.files : ~Under(g, p)} |-> s.files[f]],
            !.touched = s.touched \cup {d \in s.dirs : Under(d, p)}
                                  \cup {g \in DOMAIN s.files : Under(g, p)}]

\* os.unlink(path)
Unlink(s, p) ==
    IF s.exc # "none" THEN s
    ELSE IF ~IsFile(s, p) THEN Raise(s, "OSError")
    ELSE [s EXCEPT
            !.files = [f \in DOMAIN s.files \ {p} |-> s.files[f]],
            !.touched = s.touched \cup {p}]

\* os.mkdir(path)
Mkdir(s, p) ==
    IF s.exc # "none" THEN s
    ELSE IF Exists(s, p) \/ ~ParentIsDir(s, p) THEN Raise(s, "OSError")
    ELSE [s EXCEPT !.dirs = s.dirs \cup {p}, !.touched = s.touched \cup {p}]

\* open(path, 'w') followed by a write of content c
WriteFile(s, p, c) ==
    IF s.exc # "none" THEN s
    ELSE IF IsDir(s, p) \/ ~ParentIsDir(s, p) THEN Raise(s, "IOError")
    ELSE [s EXCEPT !.files = (p :> c) @@ s.files, !.touched = s.touched \cup {p}]

\* shutil.move(staged file with content c, path): path was removed just before
MoveInto(s, p, c) ==
    IF s.exc # "none" THEN s
    ELSE IF IsDir(s, p) \/ ~ParentIsDir(s, p) THEN Raise(s, "IOError")
    ELSE [s EXCEPT !.files = (p :> c) @@ s.files, !.touched = s.touched \cup {p}]

rmtree_or_unlink_if_exists(s, p) ==
    IF s.exc # "none" THEN s
    ELSE IF Exists(s, p)
         THEN IF IsDir(s, p) THEN Rmtree(s, p) ELSE Unlink(s, p)
         ELSE s

\* ensure_directory(path, recursive): the while loop collects the names below
\* the deepest existing directory (one name only when not recursive), the for
\* loop replaces each of them, top-down, by a fresh directory.
RECURSIVE ensure_directory(_, _, _)
ensure_directory(s, p, recursive) ==
    IF s.exc # "none" \/ IsDir(s, p) THEN s
    ELSE LET up == IF recursive /\ p # <<>>
                   THEN ensure_directory(s, Dirname(p), TRUE)
                   ELSE s
         IN Mkdir(rmtree_or_unlink_if_exists(up, p), p)

\* the data tree of s
Tree(s) == [dirs |-> s.dirs, files |-> s.files]

(***************************************************************************)
(* YAML values and mappings.  A value is a record [t, v]: t is its type    *)
(* ("null", "str", "int", "list", "map"), v its payload.  A mapping is the *)
(* sequence of its entries [key, val] in iteration order; keys are unique. *)
(***************************************************************************)
Null == [t |-> "null", v |-> ""]
Str(x) == [t |-> "str", v |-> x]
Num(n) == [t |-> "int", v |-> n]
List(xs) == [t |-> "list", v |-> xs]
Map(es) == [t |-> "map", v |-> es]
E(k, x) == [key |-> k, val |-> x]

Keys(m) == {m[i].key : i \in 1..Len(m)}
Has(m, k) == k \in Keys(m)
Lookup(m, k) == m[CHOOSE i \in 1..Len(m) : m[i].key = k].val

\* d[k] = x
Put(m, k, x) ==
    IF Has(m, k)
    THEN [i \in 1..Len(m) |-> IF m[i].key = k THEN E(k, x) ELSE m[i]]
    ELSE Append(m, E(k, x))

\* del d[k], for a key d has
Del(m, k) == SelectSeq(m, LAMBDA e : e.key # k)

\* gen == 'generated'
IsGenerated(x) == x.t = "str" /\ x.v = "generated"

\* Python truthiness of a YAML value ("not gen" is ~Truthy(gen))
Truthy(x) ==
    CASE x.t = "null" -> FALSE
      [] x.t = "str" -> x.v # ""
      [] x.t = "int" -> x.v # 0
      [] OTHER -> Len(x.v) > 0

\* GeneratedKind
TESTCASE == 1
TESTGROUP == 2
TESTDATA_YAML == 3

\* GeneratorManifest._DEFAULT_CONFIG
DEFAULT_CONFIG == [extensions |-> <<>>, other |-> <<>>]

\* _validate_generator: TRUE when it returns, FALSE when it calls self.error
validate_generator(gen, allow_none) ==
    IF gen.t = "null" /\ allow_none THEN TRUE
    ELSE LET g == IF gen.t = "list" THEN gen.v ELSE <<gen>>
         IN /\ Len(g) > 0
            /\ \A i \in 1..Len(g) : g[i].t = "str" /\ ShlexSplit(g[i].v) # <<>>

\* _validate_config: the exception it raises, "none" if it returns
validate_config(config) ==
    IF config.t # "map" THEN "GeneratorError"
    ELSE IF \E i \in 1..Len(config.v) :
               /\ config.v[i].key = "extensions"
               /\ config.v[i].val.t # "map"
         THEN "AttributeError"
    ELSE IF \E i \in 1..Len(config.v) :
               /\ config.v[i].key = "extensions"
               /\ \E j \in 1..Len(config.v[i].val.v) :
                     LET ext == config.v[i].val.v[j].key
                         gen == config.v[i].val.v[j].val
                     IN \/ ext = "in"
                        \/ /\ gen.t # "null"
                           /\ ~IsGenerated(gen)
                           /\ ~validate_generator(gen, FALSE)
         THEN "GeneratorError"
    ELSE "none"

\* a variant of merge_extensions that skips a falsy value
RECURSIVE merge_extensions_keeps_disabled(_, _, _)
merge_extensions_keeps_disabled(r, value, i) ==
    IF i > Len(value) THEN r
    ELSE merge_extensions_keeps_disabled(
           IF Truthy(value[i].val)
           THEN [r EXCEPT !.config.extensions = Put(r.config.extensions, value[i].key, value[i].val)]
           ELSE r,
           value, i + 1)

\* the inner loop of _merge_configs over the scope's extensions, entry i on:
\* a falsy value deletes the inherited entry (KeyError when there is none)
RECURSIVE merge_extensions(_, _, _)
merge_extensions(r, value, i) ==
    IF i > Len(value) \/ r.exc # "none" THEN r
    ELSE LET ext == value[i].key
             gen == value[i].val
         IN IF ~Truthy(gen)
            THEN IF Has(r.config.extensions, ext)
                 THEN merge_extensions(
                        [r EXCEPT !.config.extensions = Del(r.config.extensions, ext)],
                        value, i + 1)
                 ELSE [r EXCEPT !.exc = "KeyError"]
            ELSE merge_extensions(
                   [r EXCEPT !.config.extensions = Put(r.config.extensions, ext, gen)],
                   value, i + 1)

\* the loops of _merge_configs over new_config.items(), entry i on
RECURSIVE merge_keys(_, _, _)
merge_keys(r, new_config, i) ==
    IF i > Len(new_config) \/ r.exc # "none" THEN r
    ELSE LET key == new_config[i].key
             value == new_config[i].val
         IN IF key = "extensions"
            THEN merge_keys(merge_extensions(r, value.v, 1), new_config, i + 1)
            ELSE merge_keys([r EXCEPT !.config.other = Put(r.config.other, key, value)],
                            new_config, i + 1)

\* Config objects live in a heap (a sequence of configs, a reference is an
\* index): object 1 is GeneratorManifest._DEFAULT_CONFIG.
\* a variant of deepcopy that hands back the object itself
deepcopy_shared(heap, ref) == [heap |-> heap, ref |-> ref]

\* deepcopy(old_config): a new object with the content of the old one
deepcopy(heap, ref) == [heap |-> Append(heap, heap[ref]), ref |-> Len(heap) + 1]

\* _merge_configs(old_config, new_config) on a validated scope config: the
\* loops work on the copy; [heap, ref, exc], ref being the object returned
merge_configs(heap, old_config, new_config) ==
    LET c == deepcopy(heap, old_config)
        r == merge_keys([config |-> c.heap[c.ref], exc |-> "none"], new_config.v, 1)
    IN [heap |-> [c.heap EXCEPT ![c.ref] = r.config], ref |-> c.ref, exc |-> r.exc]

(***************************************************************************)
(* The manifest walk.  _walk_group calls handler(kind, path, gen, config)  *)
(* for every unit and post_group_handler(manifest, path, config) after a   *)
(* group generator and at the end of every group; the walk is rendered as  *)
(* the sequence of these calls, cut short by the first exception.  An      *)
(* event holds the config object passed (ref) and its content at the call. *)
(***************************************************************************)
UnitEvent(kind, path, gen, heap, ref) ==
    [ev |-> "unit", kind |-> kind, path |-> path, gen |-> gen,
     config |-> heap[ref], ref |-> ref, keys |-> {}]

PostEvent(keys, path, heap, ref) ==
    [ev |-> "post", kind |-> 0, path |-> path, gen |-> Null,
     config |-> heap[ref], ref |-> ref, keys |-> keys]

Stop(heap, e) == [events |-> <<>>, exc |-> e, heap |-> heap]
Then(evs, rest) == [events |-> evs \o rest.events, exc |-> rest.exc, heap |-> rest.heap]

\* the kind of a non-mapping unit (line 240)
unit_kind(key) == IF EndsWith(key, ".in") THEN TESTCASE ELSE TESTGROUP

RECURSIVE walk_group(_, _, _, _, _), walk_items(_, _, _, _, _, _)
\* the loop of _walk_group over manifest.items(), entry i on; config is the
\* reference of the scope's merged config
walk_items(heap, manifest, i, path, config, post) ==
    IF i > Len(manifest) THEN Stop(heap, "none")
    ELSE LET key == manifest[i].key
             value == manifest[i].val
             rest == walk_items(heap, manifest, i + 1, path, config, post)
         IN IF key = "" THEN Stop(heap, "GeneratorError")
            ELSE IF key = "config" THEN rest
            ELSE IF ~key_regex(key) THEN Stop(heap, "GeneratorError")
            ELSE IF key = "testdata.yaml"
                 THEN IF value.t # "map" THEN Stop(heap, "GeneratorError")
                      ELSE Then(<<UnitEvent(TESTDATA_YAML, Join(path, key), value, heap, config)>>,
                                rest)
            ELSE IF value.t = "map"
                 THEN LET sub == walk_group(heap, value.v, Join(path, key), config, post)
                      IN IF sub.exc # "none" THEN sub
                         ELSE Then(sub.events,
                                   walk_items(sub.heap, manifest, i + 1, path, config, post))
            ELSE IF ~validate_generator(value, TRUE) THEN Stop(heap, "GeneratorError")
            ELSE LET kind == unit_kind(key)
                 IN Then(<<UnitEvent(kind, Join(path, key), value, heap, config)>>
                         \o (IF kind = TESTGROUP /\ post
                             THEN <<PostEvent({}, Join(path, key), heap, config)>>
                             ELSE <<>>),
                         rest)

\* _walk_group(manifest, path, parent_config, handler, post_group_handler);
\* post tells whether post_group_handler is given
walk_group(heap, manifest, path, parent_config, post) ==
    LET scope_config == IF Has(manifest, "config") THEN Lookup(manifest, "config")
                        ELSE Map(<<>>)
        verr == validate_config(scope_config)
    IN IF verr # "none" THEN Stop(heap, verr)
       ELSE LET merged == merge_configs(heap, parent_config, scope_config)
            IN IF merged.exc # "none" THEN Stop(merged.heap, merged.exc)
               ELSE LET items == walk_items(merged.heap, manifest, 1, path, merged.ref, post)
                    IN IF items.exc # "none" THEN items
                       ELSE [events |-> items.events \o
                                (IF post
                                 THEN <<PostEvent(Keys(manifest), path, items.heap, merged.ref)>>
                                 ELSE <<>>),
                             exc |-> "none",
                             heap |-> items.heap]

\* _walk(handler, post_group_handler) from the data directory
walk(manifest, post) == walk_group(<<DEFAULT_CONFIG>>, manifest.v, <<>>, 1, post)

\* the handler of __enter__ (lines 128-132) run over the walk's unit events:
\* a path already in paths is a duplicate declaration
RECURSIVE enter_handler(_, _, _)
enter_handler(events, i, paths) ==
    IF i > Len(events) THEN "none"
    ELSE IF events[i].path \in paths THEN "GeneratorError"
    ELSE enter_handler(events, i + 1, paths \cup {events[i].path})

\* a variant of load_error that leaves the validation to the later walk
load_error_top_level_only(manifest) ==
    IF manifest.t # "map" THEN "GeneratorError" ELSE "none"

\* what loading the manifest in __enter__ raises (lines 119-133), "none" if nothing
load_error(manifest) ==
    IF manifest.t # "map" THEN "GeneratorError"
    ELSE LET w == walk(manifest, FALSE)
             dup == enter_handler(w.events, 1, {})
         IN IF dup # "none" THEN dup ELSE w.exc

(***************************************************************************)
(* State                                                                   *)
(***************************************************************************)
VARIABLES
    pc,          \* where main is: "idle", "loaded", "walking", "exited"
    runs,        \* number of invocations of main started so far
    mode,        \* args.clean of the current invocation: "generate" or "clean"
    manifest,    \* the YAML document of generators/gen.yaml
    cwd,         \* the working directory main was started in
    env,         \* the Program Runner's behaviour: [failAt, badprog]
    dirs,        \* the directories of the data tree
    files,       \* the regular files of the data tree and their contents
    tmpdir,      \* self.tmpdir: "absent", "present" or "removed"
    ws,          \* the entries of self.tmpdir
    cache,       \* self.generator_cache
    todo,        \* the calls the walk has still to make
    exc,         \* the exception that ended the invocation, "none" if none
    compiled,    \* history: the program paths compile() was called for
    log,         \* history: the generator executions of this invocation
    touched,     \* history: the data-tree paths this invocation removed or wrote
    pre,         \* history: the data tree when the last unit started
    stagings,    \* history: the number of staging directories created so far
    warnings,    \* history: the paths this invocation logged a warning for
    start,       \* history: the data tree when this invocation started
    produced,    \* history: the files the last generate wrote, if it succeeded
    done         \* history: the modes of the invocations that succeeded, in order

vars == <<pc, runs, mode, manifest, cwd, env, dirs, files, tmpdir, ws, cache,
          todo, exc, compiled, log, touched, pre, stagings, warnings, start,
          produced, done>>

(***************************************************************************)
(* The Program Runner (run.get_program, Program.compile, Program.run) and  *)
(* the generator programs are outside the repository.  A program is known  *)
(* by the name its command starts with; env.badprog names a program whose  *)
(* compile fails and env.failAt the execution that exits with status 1.    *)
(***************************************************************************)
Programs == {"gen", "sol", "filter", "viz", "gengroup", "gennest", "gendeep", "$SEED"}

\* the name of the program file of a program path
ProgramName(program_path) ==
    LET k == CHOOSE i \in 1..Len(program_path) :
                /\ CharAt(program_path, i) = "/"
                /\ \A j \in (i+1)..Len(program_path) : CharAt(program_path, j) # "/"
    IN SubSeq(program_path, k + 1, Len(program_path))

\* the files a generator writes into its working directory besides its output
SideFiles(name) ==
    CASE name = "gengroup" ->
           (<<"1.in">> :> << <<"gengroup", "1.in">> >>) @@ (<<"1.ans">> :> << <<"gengroup", "1.ans">> >>)
           @@ (<<"2.in">> :> << <<"gengroup", "2.in">> >>) @@ (<<"stray.txt">> :> << <<"gengroup", "stray.txt">> >>)
      [] name = "gennest" ->
           (<<"3.in">> :> << <<"gennest", "3.in">> >>) @@ (<<"sub", "4.in">> :> << <<"gennest", "sub/4.in">> >>)
           @@ (<<"sub", "4.ans">> :> << <<"gennest", "sub/4.ans">> >>)
           @@ (<<"sub", "5.ans">> :> << <<"gennest", "sub/5.ans">> >>)
      [] name = "gendeep" ->
           (<<"a", "b", "6.in">> :> << <<"gendeep", "a/b/6.in">> >>)
      [] OTHER -> <<>>

\* the bytes a program writes to its output file, given its arguments and input
Output(program_path, arguments, input) ==
    Append(input, <<program_path>> \o arguments)

(***************************************************************************)
(* Command Interpolator                                                    *)
(***************************************************************************)
Alphabet == " $-./0123456789ABCDEFGHIJKLMNOPQRSTUVWXYZ_abcdefghijklmnopqrstuvwxyz"
Ord(c) == IF \E i \in 1..Len(Alphabet) : CharAt(Alphabet, i) = c
          THEN CHOOSE i \in 1..Len(Alphabet) : CharAt(Alphabet, i) = c
          ELSE 0

\* _hash_command: a digest of the literal command text reduced to 31 bits.
\* SHA-512 is replaced by a positional checksum that stays below 2^31.
RECURSIVE Digest(_, _, _)
Digest(s, i, h) ==
    IF i > Len(s) THEN h
    ELSE Digest(s, i + 1, ((h % 1048576) * 71 + Ord(CharAt(s, i))) % 1073741824)

\* a variant of hash_command that also draws on what has run before
hash_command_with_history(command) == ToString(Digest(command, 1, 7) + Len(log))

hash_command(command) == ToString(Digest(command, 1, 7))

\* a variant of parse_command that replaces the placeholder inside a token
\* and keeps the characters that follow it
parse_command_keeps_suffix(command, gen_path, path) ==
    LET seed == hash_command(command)
        tokens == ShlexSplit(command)
        arguments == Tail(tokens)
    IN [program_path |-> gen_path \o "/" \o Head(tokens),
        arguments |-> [i \in 1..Len(arguments) |->
                         IF arguments[i] = "$PATH" THEN path
                         ELSE IF StartsWith(arguments[i], "$SEED")
                              THEN seed \o SubSeq(arguments[i], 6, Len(arguments[i]))
                         ELSE arguments[i]]]

\* _parse_command(command, gen_path, path)
parse_command(command, gen_path, path) ==
    LET seed == hash_command(command)
        tokens == ShlexSplit(command)
        arguments == Tail(tokens)
    IN [program_path |-> gen_path \o "/" \o Head(tokens),
        arguments |-> [i \in 1..Len(arguments) |->
                         IF arguments[i] = "$PATH" THEN path
                         ELSE IF StartsWith(arguments[i], "$SEED") THEN seed
                         ELSE arguments[i]]]

(***************************************************************************)
(* Generator Cache                                                         *)
(***************************************************************************)
\* a variant of get_generator that compiles on every reference
get_generator_uncached(s, path) ==
    IF s.exc # "none" THEN s
    ELSE LET s1 == [s EXCEPT !.ws = @ \cup {<<"generator-", Cardinality(@) + 1>>}]
             s2 == [s1 EXCEPT !.compiled = Append(@, path)]
         IN IF ProgramName(path) = env.badprog
            THEN Raise(s2, "GeneratorError")
            ELSE [s2 EXCEPT !.cache = (path :> Len(s2.compiled)) @@ @]

\* _get_generator(path): compiles on the first reference, memoizes the handle
get_generator(s, path) ==
    IF s.exc # "none" \/ path \in DOMAIN s.cache THEN s
    ELSE LET s1 == [s EXCEPT !.ws = @ \cup {<<"generator-", Cardinality(@) + 1>>}]
         IN IF ProgramName(path) \notin Programs
            THEN Raise(s1, "AttributeError")
            ELSE LET s2 == [s1 EXCEPT !.compiled = Append(@, path)]
                 IN IF ProgramName(path) = env.badprog
                    THEN Raise(s2, "GeneratorError")
                    ELSE [s2 EXCEPT !.cache = (path :> Len(s2.compiled)) @@ @]

(***************************************************************************)
(* Execution Engine                                                        *)
(***************************************************************************)
\* a generator spec as the list of its commands (lines 271-272)
Commands(gen) == IF gen.t = "list" THEN [i \in 1..Len(gen.v) |-> gen.v[i].v]
                 ELSE <<gen.v>>

NoInput == <<>>

\* a variant of check_returncode that lets a failed generator pass
check_returncode_ignored(s, returncode) == s

\* lines 298-300: a non-zero exit code is an error
check_returncode(s, returncode) ==
    IF returncode # 0 THEN Raise(s, "GeneratorError") ELSE s

\* a variant of move_output that leaves the next command the old input
move_output_dropped(input, output) == input

\* lines 302-305: the output file becomes _tmp_input, the input of the next
\* command; the result is the content input_path then names
move_output(input, output) == output

\* the loop of _execute_generator (lines 278-305), command i on; input is the
\* content of input_path, NoInput when there is no input file
RECURSIVE run_chain(_, _, _, _, _, _, _)
run_chain(s, gen, i, gen_path, path, input, output_filename) ==
    IF i > Len(gen) \/ s.exc # "none" THEN [s |-> s, input |-> input]
    ELSE LET parsed == parse_command(gen[i], gen_path, path)
             s1 == get_generator(s, parsed.program_path)
         IN IF s1.exc # "none" THEN [s |-> s1, input |-> input]
            ELSE LET returncode == IF Len(s1.log) + 1 = env.failAt THEN 1 ELSE 0
                     entry == [command |-> gen[i],
                               program_path |-> parsed.program_path,
                               arguments |-> parsed.arguments,
                               handle |-> s1.cache[parsed.program_path],
                               input |-> input,
                               target |-> output_filename,
                               path |-> path,
                               call |-> s1.stagings,
                               returncode |-> returncode]
                     s2 == [s1 EXCEPT
                              !.log = Append(@, entry),
                              !.gen_dir = SideFiles(ProgramName(parsed.program_path)) @@ @]
                     s3 == check_returncode(s2, returncode)
                 IN IF s3.exc # "none" THEN [s |-> s3, input |-> input]
                    ELSE run_chain(s3, gen, i + 1, gen_path, path,
                                   move_output(input,
                                       Output(parsed.program_path, parsed.arguments, input)),
                                   output_filename)

\* _execute_generator(gen, gen_path, tmp_dir, gen_dir, path, input_filename,
\* output_filename); a filename of "" stands for None
execute_generator(s, gen, gen_path, path, input_filename, output_filename) ==
    IF s.exc # "none" THEN s
    ELSE LET input == IF input_filename # "" /\ <<input_filename>> \in DOMAIN s.gen_dir
                      THEN s.gen_dir[<<input_filename>>]
                      ELSE NoInput
             r == run_chain(s, Commands(gen), 1, gen_path, path, input, output_filename)
         IN IF r.s.exc # "none" \/ output_filename = "" THEN r.s
            ELSE [r.s EXCEPT !.gen_dir = (<<output_filename>> :> r.input) @@ @]

\* config['extensions'].get(ext) == 'generated'
ConfiguredGenerated(config, ext) ==
    Has(config.extensions, ext) /\ IsGenerated(Lookup(config.extensions, ext))

\* a variant of adopted without the extension and sibling filters
adopted_any_dotted(f, staged, config) == HasDot(Basename(f))

\* a variant of adopted without the test for the matching .in file
adopted_without_sibling(f, staged, config) ==
    /\ HasDot(Basename(f))
    /\ LastExt(Basename(f)) = "in" \/ ConfiguredGenerated(config, LastExt(Basename(f)))

\* the test of lines 406-417: is the staged file f (a path relative to gen_dir)
\* moved to the target directory?
adopted(f, staged, config) ==
    LET fname == Basename(f)
        ext == LastExt(fname)
        in_file == DropLast(fname, Len(ext)) \o "in"
    IN /\ HasDot(fname)
       /\ ext = "in" \/ ConfiguredGenerated(config, ext)
       /\ Join(Dirname(f), in_file) \in staged

\* the os.walk loop of _run_single (lines 400-422) over the staged files left
\* in todo, directories top-down
RECURSIVE merge_generated(_, _, _, _)
merge_generated(s, todo_files, target_dir, config) ==
    IF todo_files = {} \/ s.exc # "none" THEN s
    ELSE LET f == CHOOSE x \in todo_files : \A y \in todo_files : Len(x) <= Len(y)
             cur_target_dir == target_dir \o Dirname(f)
             cur_target == Join(cur_target_dir, Basename(f))
             s1 == IF adopted(f, DOMAIN s.gen_dir, config)
                   THEN MoveInto(
                          rmtree_or_unlink_if_exists(
                            ensure_directory(s, cur_target_dir, FALSE), cur_target),
                          cur_target, s.gen_dir[f])
                   ELSE s
         IN merge_generated(s1, todo_files \ {f}, target_dir, config)

\* tempfile.mkdtemp(dir=self.tmpdir, ...) for a unit: the name of the new
\* staging directory, and the state once it and its gen directory exist
Staging(s) == <<"staging-", s.stagings + 1>>
EmptyDir == [f \in {} |-> <<>>]
make_staging(s) ==
    [s EXCEPT !.ws = @ \cup {Staging(s)}, !.stagings = @ + 1, !.gen_dir = EmptyDir]

\* a variant of remove_staging that cleans up only when nothing was raised
remove_staging_on_success(s, tmp_dir) ==
    IF s.exc = "none" THEN [s EXCEPT !.ws = @ \ {tmp_dir}, !.gen_dir = EmptyDir] ELSE s

\* finally: shutil.rmtree(tmp_dir), whatever the try block raised
remove_staging(s, tmp_dir) == [s EXCEPT !.ws = @ \ {tmp_dir}, !.gen_dir = EmptyDir]

\* _run_single(kind, path, gen, config)
run_single(s0, kind, path, gen, config) ==
    LET target_dir == IF kind = TESTGROUP THEN path ELSE Dirname(path)
        s == ensure_directory([s0 EXCEPT !.pre = Tree(s0)], target_dir, TRUE)
    IN IF s.exc # "none" THEN s
       ELSE IF kind = TESTDATA_YAML THEN WriteFile(s, path, << <<"yaml.dump">> >>)
       ELSE IF gen.t = "null" THEN s
       ELSE LET tmp_dir == Staging(s)
                s1 == make_staging(s)
                s2 == execute_generator(s1, gen, "generators", Basename(path), "",
                                        IF kind = TESTCASE THEN Basename(path) ELSE "")
                s3 == merge_generated(s2, DOMAIN s2.gen_dir, target_dir, config)
            IN remove_staging(s3, tmp_dir)

\* path[:-2] + ext, the sibling of a .in path with extension ext
Sibling(path, ext) == Join(Dirname(path), DropLast(Basename(path), 2) \o ext)

\* a variant of partition_extensions that queues ans like any extension
RECURSIVE partition_extensions_appends_ans(_, _, _)
partition_extensions_appends_ans(exts, i, r) ==
    IF i > Len(exts) THEN r
    ELSE partition_extensions_appends_ans(exts, i + 1,
           IF IsGenerated(exts[i].val)
           THEN [r EXCEPT !.gen = exts[i].val, !.old = Append(@, exts[i].key)]
           ELSE [r EXCEPT !.gen = exts[i].val, !.new = Append(@, exts[i].key)])

\* the loop of lines 319-326 over config['extensions'].items(), entry i on:
\* [old, new, gen], gen being the loop variable's last value
RECURSIVE partition_extensions(_, _, _)
partition_extensions(exts, i, r) ==
    IF i > Len(exts) THEN r
    ELSE LET ext == exts[i].key
             gen == exts[i].val
             r1 == [r EXCEPT !.gen = gen]
         IN partition_extensions(exts, i + 1,
              IF IsGenerated(gen) THEN [r1 EXCEPT !.old = Append(@, ext)]
              ELSE IF ext = "ans" THEN [r1 EXCEPT !.new = <<"ans">> \o @]
              ELSE [r1 EXCEPT !.new = Append(@, ext)])

\* lines 342-346: copy the .in file and the externally generated siblings
RECURSIVE copy_old(_, _, _, _)
copy_old(s, path, exts, i) ==
    IF i > Len(exts) THEN s
    ELSE LET cur_path == Sibling(path, exts[i])
         IN copy_old(IF IsFile(s, cur_path)
                     THEN [s EXCEPT !.gen_dir = (<<Basename(cur_path)>> :> s.files[cur_path]) @@ @]
                     ELSE s,
                     path, exts, i + 1)

\* lines 348-352: run the generator of every new extension
RECURSIVE generate_new(_, _, _, _, _)
generate_new(s, path, gen, exts, i) ==
    IF i > Len(exts) \/ s.exc # "none" THEN s
    ELSE LET cur_path == Sibling(path, exts[i])
         IN generate_new(
              execute_generator(s, gen, ".", Basename(cur_path),
                                Basename(path), Basename(cur_path)),
              path, gen, exts, i + 1)

\* lines 357-361: move the staged files next to the .in file
RECURSIVE move_generated(_, _, _, _)
move_generated(s, path, exts, i) ==
    IF i > Len(exts) \/ s.exc # "none" THEN s
    ELSE LET to_path == Sibling(path, exts[i])
             from_path == <<Basename(to_path)>>
             s1 == rmtree_or_unlink_if_exists(s, to_path)
         IN move_generated(
              IF from_path \in DOMAIN s.gen_dir
              THEN MoveInto(s1, to_path, s.gen_dir[from_path])
              ELSE Raise(s1, "IOError"),
              path, exts, i + 1)

\* _generate_extensions(path, config) without a caller's staging directory
generate_extensions(s0, path, config) ==
    LET part == partition_extensions(config.extensions, 1,
                    [old |-> <<"in">>, new |-> <<>>, gen |-> Null])
    IN IF s0.exc # "none" \/ part.new = <<>> THEN s0
       ELSE LET tmp_dir == Staging(s0)
                s1 == make_staging([s0 EXCEPT !.pre = Tree(s0)])
                s2 == copy_old(s1, path, part.old, 1)
                s3 == generate_new(s2, path, part.gen, part.new, 1)
                s4 == ensure_directory(s3, Dirname(path), TRUE)
                s5 == move_generated(s4, path, part.old \o part.new, 1)
            IN remove_staging(s5, tmp_dir)

\* os.listdir(path)
Listdir(s, path) ==
    {Basename(p) : p \in {q \in s.dirs \cup DOMAIN s.files :
                            Len(q) = Len(path) + 1 /\ Under(q, path)}}

\* _run_post_group(manifest, path, config): keys are the manifest's keys;
\* isdir(fname) and isfile(fname) resolve fname against the working directory
RECURSIVE run_post_group(_, _, _, _), scan_names(_, _, _, _, _)
scan_names(s, names, keys, path, config) ==
    IF names = {} \/ s.exc # "none" THEN s
    ELSE LET fname == CHOOSE n \in names : TRUE
             s1 == IF fname \in keys THEN s
                   ELSE IF IsDir(s, Join(cwd, fname))
                        THEN run_post_group(s, {}, Join(path, fname), config)
                   ELSE IF IsFile(s, Join(cwd, fname)) /\ EndsWith(fname, ".in")
                        THEN generate_extensions(s, Join(path, fname), config)
                   ELSE s
         IN scan_names(s1, names \ {fname}, keys, path, config)

run_post_group(s, keys, path, config) ==
    IF s.exc # "none" THEN s
    ELSE IF ~IsDir(s, path) THEN Raise(s, "OSError")
    ELSE scan_names(s, Listdir(s, path), keys, path, config)

(***************************************************************************)
(* Cleaner                                                                 *)
(***************************************************************************)
\* '%s.%s' % (path[:-3], ext)
ExtensionPath(path, ext) ==
    Join(Dirname(path), DropLast(Basename(path), 3) \o "." \o ext)

\* self.warning('could not remove ...' % path)
warning(s, p) == [s EXCEPT !.warnings = @ \cup {p}]

\* a variant of try_unlink without the except clause
unlink_or_raise(s, p) == IF Exists(s, p) THEN Unlink(s, p) ELSE s

\* if os.path.exists(p): try: os.unlink(p) except: self.warning(...);
\* os.unlink fails on a directory
try_unlink(s, p) ==
    IF ~Exists(s, p) THEN s
    ELSE IF IsFile(s, p) THEN Unlink(s, p)
    ELSE warning(s, p)

\* if os.path.exists(p): try: shutil.rmtree(p) except: self.warning(...);
\* shutil.rmtree fails on a regular file
try_rmtree(s, p) ==
    IF ~Exists(s, p) THEN s
    ELSE IF IsDir(s, p) THEN Rmtree(s, p)
    ELSE warning(s, p)

\* lines 438-443 over the extensions of the config, entry i on
RECURSIVE clean_extensions(_, _, _, _)
clean_extensions(s, path, exts, i) ==
    IF i > Len(exts) THEN s
    ELSE clean_extensions(try_unlink(s, ExtensionPath(path, exts[i].key)),
                          path, exts, i + 1)

\* a variant of clean_single that keeps the directories of group generators
clean_single_keeps_groups(s, kind, path, gen, config) ==
    IF kind = TESTCASE
    THEN clean_extensions(try_unlink(s, path), path, config.extensions, 1)
    ELSE IF kind = TESTDATA_YAML
    THEN IF gen.t # "null" THEN try_unlink(s, path) ELSE s
    ELSE s

\* _clean_single(kind, path, gen, config)
clean_single(s, kind, path, gen, config) ==
    IF kind = TESTCASE
    THEN clean_extensions(try_unlink(s, path), path, config.extensions, 1)
    ELSE IF kind = TESTDATA_YAML
    THEN IF gen.t # "null" THEN try_unlink(s, path) ELSE s
    ELSE IF gen.t # "null" THEN try_rmtree(s, path) ELSE s

(***************************************************************************)
(* Inputs: the manifests, the data trees and the working directories the   *)
(* program is started on                                                   *)
(***************************************************************************)
Config(exts) == E("config", Map(<<E("extensions", Map(exts))>>))

Manifests == <<
    \* 1: the end-to-end example
    Map(<<E("sample", Map(<<Config(<<E("ans", Str("sol"))>>),
                            E("1.in", Str("gen 1 $SEED"))>>))>>),
    \* 2: a manual testcase, a literal document and a manual group
    Map(<<E("sample", Map(<<Config(<<E("ans", Str("sol"))>>),
                            E("1.in", Null),
                            E("testdata.yaml", Map(<<E("grading", Str("custom"))>>))>>)),
          E("man", Null)>>),
    \* 3: a manual testcase next to a testcase whose generator leaves other
    \*    files in its working directory
    Map(<<E("sample", Map(<<E("1.in", Null), E("5.in", Str("gengroup"))>>))>>),
    \* 4: a group generator, ans externally generated, and a literal document
    Map(<<Config(<<E("ans", Str("generated"))>>),
          E("grp", Str("gengroup")),
          E("testdata.yaml", Map(<<E("grading", Str("default"))>>))>>),
    \* 5: a chain, and commands sharing one program
    Map(<<E("1.in", List(<<Str("gen 1"), Str("filter")>>)),
          E("2.in", Str("gen 2 $SEED")), E("3.in", Str("gen 1"))>>),
    \* 6: an invalid key after a valid unit
    Map(<<E("sample", Map(<<E("1.in", Str("gen 1"))>>)), E("bad_", Str("gen 2"))>>),
    \* 7: a scope that disables an extension its parent does not have
    Map(<<Config(<<E("ans", Null)>>), E("1.in", Str("gen 1"))>>),
    \* 8: a group without units
    Map(<<E("sample", Map(<<>>))>>),
    \* 9: inherited, overridden and disabled extensions
    Map(<<Config(<<E("png", Str("viz")), E("ans", Str("sol"))>>),
          E("sample", Map(<<Config(<<E("png", Null)>>), E("1.in", Str("gen 1"))>>)),
          E("secret", Map(<<E("1.in", Null)>>))>>),
    \* 10: a group generator that writes into subdirectories
    Map(<<E("nest", Str("gennest"))>>),
    \* 11: a document that is not a mapping
    Str("gen 1"),
    \* 12: an empty generator list
    Map(<<E("sample", Map(<<E("1.in", Str("gen 1")), E("2.in", List(<<>>))>>))>>),
    \* 13: configs over three levels, placeholders, one command text in two units
    Map(<<Config(<<E("png", Str("viz $PATH")), E("ans", Str("sol"))>>),
          E("sample", Map(<<E("1.in", Str("gen 1 $SEED"))>>)),
          E("secret", Map(<<Config(<<E("ans", Str("sol 2")), E("png", Null)>>),
                            E("sub", Map(<<Config(<<E("ans", Null), E("png", Str("viz 2"))>>),
                                           E("1.in", Str("gen $PATH"))>>))>>)),
          E("2.in", List(<<Str("gen 2"), Str("gen 1 $SEED")>>))>>),
    \* 14: ans configured before another extension, and a group generator
    \*     under a config with ans externally generated
    Map(<<E("sample", Map(<<Config(<<E("ans", Str("sol")), E("png", Str("viz"))>>),
                            E("1.in", Null)>>)),
          E("deep", Map(<<Config(<<E("ans", Str("generated"))>>),
                          E("nest", Str("gennest"))>>))>>),
    \* 15: an externally generated extension next to a generated one, and a
    \*     group generator that writes two directory levels down
    Map(<<E("sample", Map(<<Config(<<E("chk", Str("generated")), E("png", Str("viz"))>>),
                            E("1.in", Null)>>)),
          E("far", Str("gendeep"))>>),
    \* 16: tokens that start with, end with or equal a placeholder, and a
    \*     program whose name is the seed placeholder
    Map(<<E("1.in", Str("gen $SEEDx7 a$SEED $PATHx $PATH")),
          E("2.in", Str("$SEED $SEED"))>>),
    \* 17: a key that ends in .in and has a mapping as its value
    Map(<<E("a.in", Map(<<E("1.in", Str("gen 1"))>>)), E("b.in", Str("gen 2"))>>)
>>

Manual == << <<"manual">> >>

Trees == <<
    \* the data directory does not exist
    [dirs |-> {}, files |-> EmptyDir],
    \* an empty data directory
    [dirs |-> {<<>>}, files |-> EmptyDir],
    \* manually authored files
    [dirs |-> {<<>>, <<"sample">>, <<"secret">>, <<"man">>},
     files |-> (<<"sample", "1.in">> :> Manual) @@ (<<"sample", "1.ans">> :> Manual)
               @@ (<<"sample", "x.in">> :> Manual) @@ (<<"secret", "1.in">> :> Manual)
               @@ (<<"man", "7.in">> :> Manual)],
    \* a regular file where a group directory goes, and an old group directory
    [dirs |-> {<<>>, <<"grp">>},
     files |-> (<<"sample">> :> Manual) @@ (<<"grp", "old.in">> :> Manual)
               @@ (<<"grp", "1.in">> :> Manual)],
    \* a directory where a testcase file goes, a regular file where the
    \* directory of a group generator goes
    [dirs |-> {<<>>, <<"1.in">>},
     files |-> (<<"1.in", "keep.txt">> :> Manual) @@ (<<"2.in">> :> Manual)
               @@ (<<"far">> :> Manual) @@ (<<"testdata.yaml">> :> Manual)]
>>

\* a working directory outside the data tree, holding none of its names
Outside == <<"..">>
Cwds == {Outside, <<>>, <<"sample">>}

Envs == [failAt : 0..MaxFail, badprog : {"none", "gen", "sol"}]

(***************************************************************************)
(* main: one action per handler call of the walk                           *)
(***************************************************************************)
Init ==
    /\ pc = "idle"
    /\ runs = 0
    /\ mode = "generate"
    /\ \E i \in 1..Len(Manifests) : manifest = Manifests[i]
    /\ cwd \in Cwds
    /\ env \in Envs
    /\ \E i \in 1..Len(Trees) :
          /\ dirs = Trees[i].dirs
          /\ files = Trees[i].files
          /\ pre = Trees[i]
          /\ start = Trees[i]
    /\ tmpdir = "absent"
    /\ ws = {}
    /\ cache = EmptyDir
    /\ todo = <<>>
    /\ exc = "none"
    /\ compiled = <<>>
    /\ log = <<>>
    /\ touched = {}
    /\ stagings = 0
    /\ warnings = {}
    /\ produced = {}
    /\ done = <<>>

\* the state the handlers work on
Machine ==
    [dirs |-> dirs, files |-> files, ws |-> ws, cache |-> cache,
     compiled |-> compiled, log |-> log, touched |-> touched, pre |-> pre,
     stagings |-> stagings, warnings |-> warnings, exc |-> "none",
     gen_dir |-> EmptyDir]

\* the state a handler leaves
Becomes(s) ==
    /\ dirs' = s.dirs
    /\ files' = s.files
    /\ ws' = s.ws
    /\ cache' = s.cache
    /\ compiled' = s.compiled
    /\ log' = s.log
    /\ touched' = s.touched
    /\ pre' = s.pre
    /\ stagings' = s.stagings
    /\ warnings' = s.warnings
    /\ exc' = s.exc

\* main up to the end of GeneratorManifest.__enter__ (lines 482-484, 115-135):
\* the workspace is created, then the manifest is loaded and walked once
Enter(m) ==
    /\ pc \in {"idle", "exited"}
    /\ runs < MaxRuns
    /\ runs' = runs + 1
    /\ mode' = m
    /\ tmpdir' = "present"
    /\ ws' = {}
    /\ cache' = EmptyDir
    /\ compiled' = <<>>
    /\ log' = <<>>
    /\ touched' = {}
    /\ stagings' = 0
    /\ warnings' = {}
    /\ pre' = [dirs |-> dirs, files |-> files]
    /\ start' = [dirs |-> dirs, files |-> files]
    /\ LET err == load_error(manifest)
       IN IF err # "none"
          THEN /\ exc' = err
               /\ pc' = "exited"
               /\ todo' = <<>>
          ELSE /\ exc' = "none"
               /\ pc' = "walking"
               /\ todo' = walk(manifest, m = "generate").events
    /\ UNCHANGED <<manifest, cwd, env, dirs, files, produced, done>>

Walking(m, ev) ==
    /\ pc = "walking"
    /\ mode = m
    /\ exc = "none"
    /\ todo # <<>>
    /\ Head(todo).ev = ev
    /\ todo' = Tail(todo)
    /\ UNCHANGED <<pc, runs, mode, manifest, cwd, env, tmpdir, start, produced, done>>

\* run: the handler call _run_single(kind, path, gen, config)
RunSingle ==
    /\ Walking("generate", "unit")
    /\ LET u == Head(todo)
       IN Becomes(run_single(Machine, u.kind, u.path, u.gen, u.config))

\* run: the post_group_handler call _run_post_group(manifest, path, config)
RunPostGroup ==
    /\ Walking("generate", "post")
    /\ LET u == Head(todo)
       IN Becomes(run_post_group(Machine, u.keys, u.path, u.config))

\* clean: the handler call _clean_single(kind, path, gen, config)
CleanSingle ==
    /\ Walking("clean", "unit")
    /\ LET u == Head(todo)
       IN Becomes(clean_single(Machine, u.kind, u.path, u.gen, u.config))

\* GeneratorManifest.__exit__ (line 138), when the walk has ended or raised,
\* then the end of main
Exit ==
    /\ pc = "walking"
    /\ todo = <<>> \/ exc # "none"
    /\ tmpdir' = "removed"
    /\ ws' = {}
    /\ pc' = "exited"
    /\ done' = IF exc = "none" THEN Append(done, mode) ELSE done
    /\ produced' = IF mode = "clean" THEN produced
                   ELSE IF exc = "none" THEN touched \cap DOMAIN files
                   ELSE {}
    /\ UNCHANGED <<runs, mode, manifest, cwd, env, dirs, files, cache, todo, exc,
                   compiled, log, touched, pre, stagings, warnings, start>>

Next ==
    \/ \E m \in {"generate", "clean"} : Enter(m)
    \/ RunSingle
    \/ RunPostGroup
    \/ CleanSingle
    \/ Exit

Spec == Init /\ [][Next]_vars

(***************************************************************************)
(* Properties                                                              *)
(***************************************************************************)
\* the units the manifest declares, as the walk hands them to a handler
Units == IF manifest.t = "map" THEN walk(manifest, FALSE).events ELSE <<>>

\* an invocation of generate, or of clean, has ended without an exception
Succeeded(m) == pc = "exited" /\ mode = m /\ exc = "none"

\* u is a testcase with a command chain in a group whose config gives the
\* extension ans a command chain
ChainedWithAns(u) ==
    /\ u.kind = TESTCASE
    /\ u.gen.t # "null"
    /\ Len(u.path) >= 2
    /\ Has(u.config.extensions, "ans")
    /\ ~IsGenerated(Lookup(u.config.extensions, "ans"))

\* C1: after a successful generate, a declared testcase <name>.in with a
\* command chain, in a group that configures ans with a command chain, has
\* both <name>.in and <name>.ans in the group's directory.
C1_EndToEnd ==
    Succeeded("generate") =>
        \A i \in 1..Len(Units) :
            ChainedWithAns(Units[i]) =>
                /\ Units[i].path \in DOMAIN files
                /\ ExtensionPath(Units[i].path, "ans") \in DOMAIN files

\* the paths of the data tree that belong to the manual unit u: a manual
\* testcase's .in file and extension files, a manual group's directory
ManualPaths(u) ==
    IF u.gen.t # "null" THEN {}
    ELSE IF u.kind = TESTCASE
    THEN {u.path} \cup {ExtensionPath(u.path, u.config.extensions[j].key) :
                           j \in 1..Len(u.config.extensions)}
    ELSE {p \in start.dirs \cup DOMAIN start.files : Under(p, u.path)}

\* C2: a clean run deletes no file or directory that belongs to a unit whose
\* spec is null.
C2_CleanKeepsManual ==
    mode = "clean" =>
        \A i \in 1..Len(Units) : \A p \in ManualPaths(Units[i]) :
            /\ p \in DOMAIN start.files => p \in DOMAIN files
            /\ p \in start.dirs => p \in dirs

\* C3: during a generate run no step removes, replaces or rewrites the .in
\* file of a testcase whose spec is null.
C3_GenerateKeepsManualIn ==
    mode = "generate" =>
        \A i \in 1..Len(Units) :
            (/\ Units[i].kind = TESTCASE
             /\ Units[i].gen.t = "null"
             /\ Units[i].path \in DOMAIN start.files) =>
                Units[i].path \notin touched

\* every unit of the manifest has a generator spec
AllGenerated == \A i \in 1..Len(Units) : Units[i].gen.t # "null"

\* p is a path the cleaner derives from the manifest: a declared testcase, a
\* file named by a configured extension of one, a declared testdata.yaml, or
\* anything inside the target directory of a group generator
ManifestNamed(p) ==
    \E i \in 1..Len(Units) :
        LET u == Units[i]
        IN IF u.kind = TESTCASE
           THEN \/ p = u.path
                \/ \E j \in 1..Len(u.config.extensions) :
                      p = ExtensionPath(u.path, u.config.extensions[j].key)
           ELSE IF u.kind = TESTDATA_YAML THEN p = u.path
           ELSE Under(p, u.path)

\* C4 as stated: with only generated units, clean after a successful
\* generate leaves none of the files that generate produced.
C4_CleanRemovesAllProduced ==
    (Succeeded("clean") /\ AllGenerated) =>
        \A p \in produced : p \notin DOMAIN files

\* C4 amended: with only generated units, clean after a successful generate
\* leaves none of the files that generate produced at a path the manifest
\* names (files the post-order scan wrote for undeclared .in files remain).
C4_CleanRemovesManifestNamed ==
    (Succeeded("clean") /\ AllGenerated) =>
        \A p \in produced : ManifestNamed(p) => p \notin DOMAIN files

\* generate produced a testcase, a document and a group directory's files, and
\* the clean that followed has ended
C4_Witness ==
    /\ Succeeded("clean")
    /\ AllGenerated
    /\ \E p \in produced : Len(p) = 2 /\ ManifestNamed(p)
    /\ \E p \in produced : Len(p) = 1 /\ ManifestNamed(p)

\* the group generators whose output directory holds exactly 1.in, 1.ans,
\* 2.in and stray.txt, under a config with ans externally generated
C5_Case(u) ==
    /\ u.kind = TESTGROUP
    /\ u.gen.t = "str"
    /\ ShlexSplit(u.gen.v) # <<>>
    /\ DOMAIN SideFiles(Head(ShlexSplit(u.gen.v)))
          = {<<"1.in">>, <<"1.ans">>, <<"2.in">>, <<"stray.txt">>}
    /\ ConfiguredGenerated(u.config, "ans")

\* the files a generate run has put below path
Adopted(path) == {p \in touched \cap DOMAIN files : Under(p, path)}

\* C5 as stated: from 1.in, 1.ans, 2.in and stray.txt the merge adopts only
\* 1.in and 1.ans.
C5_MergeAdoptsOnlyFirst ==
    Succeeded("generate") =>
        \A i \in 1..Len(Units) :
            C5_Case(Units[i]) =>
                Adopted(Units[i].path)
                    = {Join(Units[i].path, "1.in"), Join(Units[i].path, "1.ans")}

\* C5 amended: from 1.in, 1.ans, 2.in and stray.txt the merge adopts 1.in,
\* 1.ans and 2.in (a .in file is its own match); only stray.txt is discarded.
C5_MergeAdoptsInAndGenerated ==
    Succeeded("generate") =>
        \A i \in 1..Len(Units) :
            C5_Case(Units[i]) =>
                Adopted(Units[i].path)
                    = {Join(Units[i].path, "1.in"), Join(Units[i].path, "1.ans"),
                       Join(Units[i].path, "2.in")}

\* a generate with such a group generator has succeeded over an old directory
C5_Witness ==
    /\ Succeeded("generate")
    /\ \E i \in 1..Len(Units) :
          /\ C5_Case(Units[i])
          /\ Join(Units[i].path, "old.in") \in DOMAIN files
          /\ Join(Units[i].path, "2.in") \in DOMAIN files

\* two unit events of the walk resolve to the same path
DuplicatePaths(events) ==
    \E i, j \in 1..Len(events) : i # j /\ events[i].path = events[j].path

\* the manifest is structurally invalid or declares a path twice
Invalid ==
    \/ manifest.t # "map"
    \/ /\ manifest.t = "map"
       /\ \/ walk(manifest, FALSE).exc = "GeneratorError"
          \/ DuplicatePaths(walk(manifest, FALSE).events)

\* C6: with an invalid manifest loading fails before the engine or the cleaner
\* performs a step: no handler is ever called, no generator is compiled or
\* run, and the data tree stays as the invocation found it.
C6_LoadFailsBeforeAnyStep ==
    Invalid =>
        /\ pc # "walking"
        /\ pc = "exited" => exc = "GeneratorError"
        /\ dirs = start.dirs
        /\ files = start.files
        /\ touched = {}
        /\ log = <<>>
        /\ compiled = <<>>

\* loading a manifest with a valid unit before the invalid entry has failed,
\* on a data tree that holds files
C6_Witness ==
    /\ Invalid
    /\ pc = "exited"
    /\ exc = "GeneratorError"
    /\ manifest.t = "map"
    /\ walk(manifest, FALSE).events # <<>>
    /\ DOMAIN files # {}

\* C7: once created, the workspace is gone when the invocation ends, also
\* when loading the manifest failed.
C7_WorkspaceRemoved ==
    pc = "exited" => tmpdir = "removed"

\* the last generator execution exited with a non-zero code
LastFailed == log # <<>> /\ log[Len(log)].returncode # 0

\* a generator failed to compile
CompileFailed ==
    /\ compiled # <<>>
    /\ ProgramName(compiled[Len(compiled)]) = env.badprog

\* C8: when a generator exits non-zero or fails to compile, the data tree is
\* as it was when the failing unit started.
C8_FailingUnitLeavesTree ==
    (mode = "generate" /\ exc = "GeneratorError" /\ (LastFailed \/ CompileFailed)) =>
        /\ dirs = pre.dirs
        /\ files = pre.files

\* C9: a non-zero exit aborts the run: only the last execution of the log can
\* have failed; then the run raises, the data tree holds no file the failing
\* unit wrote, and no execution, no handler call and no change of the data tree
\* follows in this invocation.
C9_NonZeroExitAborts ==
    /\ [](\A i \in 1..(Len(log) - 1) : log[i].returncode = 0)
    /\ [](LastFailed =>
            /\ exc = "GeneratorError"
            /\ \A p \in DOMAIN files : p \in DOMAIN pre.files /\ files[p] = pre.files[p])
    /\ [][LastFailed => (runs' # runs \/ UNCHANGED <<log, todo, dirs, files, compiled>>)]_vars

\* a chain failed at its first command with a second command and later units
\* still to come
C9_Witness ==
    /\ LastFailed
    /\ pc = "exited"
    /\ Len(log) = 1
    /\ todo # <<>>
    /\ \E i \in 1..Len(Units) :
          /\ Units[i].gen.t = "list"
          /\ Len(Units[i].gen.v) >= 2
          /\ Units[i].gen.v[1].v = log[1].command

\* C10: within one invocation compile is called at most once per program
\* path, and every execution uses the handle the first reference created.
C10_CompileOncePerPath ==
    /\ \A i, j \in 1..Len(compiled) : compiled[i] = compiled[j] => i = j
    /\ \A i \in 1..Len(log) :
          /\ log[i].handle \in 1..Len(compiled)
          /\ compiled[log[i].handle] = log[i].program_path
    /\ \A p \in DOMAIN cache : cache[p] \in 1..Len(compiled) /\ compiled[cache[p]] = p

\* three commands of two units ran the same program
C10_Witness ==
    /\ Len(log) >= 3
    /\ log[1].program_path = log[3].program_path
    /\ log[1].path # log[3].path
    /\ Len(compiled) = 2

\* the value the manifest holds at a path, Null where it holds none
RECURSIVE NodeAt(_, _)
NodeAt(node, path) ==
    IF path = <<>> THEN node
    ELSE IF node.t = "map" /\ Has(node.v, Head(path))
         THEN NodeAt(Lookup(node.v, Head(path)), Tail(path))
         ELSE Null

\* the calls of a generate walk over the manifest, and the heap it leaves
Walked ==
    IF manifest.t = "map" THEN walk(manifest, TRUE)
    ELSE Stop(<<DEFAULT_CONFIG>>, "GeneratorError")

\* the calls of the walk w that end a group of the manifest, when the walk
\* completes: one per scope, with the scope's merged config
ScopeEvents(w) ==
    {i \in 1..Len(w.events) :
        /\ w.exc = "none"
        /\ w.events[i].ev = "post"
        /\ NodeAt(manifest, w.events[i].path).t = "map"}

\* the entries config.extensions of the scope at path, as the manifest has them
ScopeExtensions(path) ==
    LET node == NodeAt(manifest, path).v
    IN IF Has(node, "config") /\ Has(Lookup(node, "config").v, "extensions")
       THEN Lookup(Lookup(node, "config").v, "extensions").v
       ELSE <<>>

\* the merged extensions of the parent of the scope at path
ParentExtensions(w, path) ==
    IF path = <<>> THEN DEFAULT_CONFIG.extensions
    ELSE LET i == CHOOSE j \in ScopeEvents(w) : w.events[j].path = Dirname(path)
         IN w.events[i].config.extensions

\* C11: in the merged config of every scope, an extension the scope sets to
\* a falsy value is absent, an extension it sets to another value has that
\* value, and an extension it does not mention has the parent's value.
C11_MergeOverParent ==
    LET w == Walked
    IN \A i \in ScopeEvents(w) :
        LET path == w.events[i].path
            child == w.events[i].config.extensions
            parent == ParentExtensions(w, path)
            own == ScopeExtensions(path)
        IN /\ \A k \in 1..Len(own) :
                 IF Truthy(own[k].val)
                 THEN Has(child, own[k].key) /\ Lookup(child, own[k].key) = own[k].val
                 ELSE ~Has(child, own[k].key)
           /\ \A k \in 1..Len(parent) :
                 ~Has(own, parent[k].key) =>
                     /\ Has(child, parent[k].key)
                     /\ Lookup(child, parent[k].key) = parent[k].val
           /\ Keys(child) \subseteq Keys(parent) \cup Keys(own)

\* a generate has succeeded on a manifest with a scope that disables one
\* inherited extension and overrides another, and a scope that mentions none
C11_Witness ==
    LET w == Walked
    IN /\ Succeeded("generate")
       /\ \E i \in ScopeEvents(w) :
             LET path == w.events[i].path
                 parent == ParentExtensions(w, path)
                 own == ScopeExtensions(path)
             IN /\ \E k \in 1..Len(own) : ~Truthy(own[k].val) /\ Has(parent, own[k].key)
                /\ \E k \in 1..Len(own) :
                      /\ Truthy(own[k].val)
                      /\ Has(parent, own[k].key)
                      /\ Lookup(parent, own[k].key) # own[k].val
                /\ \E j \in 1..Len(log) : log[j].command = "sol 2"
       /\ \E i \in ScopeEvents(w) :
             /\ ScopeExtensions(w.events[i].path) = <<>>
             /\ ParentExtensions(w, w.events[i].path) # <<>>

\* the execution e belongs to extension generation: its output is a file
\* that is not a .in file
ExtExecution(e) == e.target # "" /\ ~EndsWith(e.target, ".in")

\* C12: within one extension generation, once a command of another
\* extension's chain has started, no command of the ans chain runs: the ans
\* chain has finished before any other chain starts.
C12_AnsBeforeOthers ==
    \A i, j \in 1..Len(log) :
        (/\ i < j
         /\ log[i].call = log[j].call
         /\ ExtExecution(log[i])
         /\ ExtExecution(log[j])
         /\ LastExt(log[j].target) = "ans") => LastExt(log[i].target) = "ans"

\* under a config that lists png before ans, one extension generation ran
\* the chain for x.ans and then the chain for x.png
C12_Witness ==
    /\ Succeeded("generate")
    /\ \E i \in 1..(Len(log) - 1) :
          /\ log[i].call = log[i + 1].call
          /\ log[i].target = "x.ans"
          /\ log[i + 1].target = "x.png"
    /\ LET w == Walked
       IN \E i \in ScopeEvents(w) :
             LET exts == w.events[i].config.extensions
             IN /\ w.events[i].path = <<"sample">>
                /\ Len(exts) = 2
                /\ exts[1].key = "png"
                /\ exts[2].key = "ans"

\* the undeclared .in files the post-order call ev finds in its directory
UndeclaredIn(ev) ==
    {f \in DOMAIN files :
        /\ Dirname(f) = ev.path
        /\ EndsWith(Basename(f), ".in")
        /\ Basename(f) \notin ev.keys}

\* C13: after a successful generate, every .in file of a directory that is
\* not a manifest key of its scope has had its extensions generated with
\* the scope's config: each extension with a command chain has been written
\* next to it, whatever the working directory.
C13_PostScanCoversUndeclared ==
    Succeeded("generate") =>
        LET w == Walked
        IN \A i \in 1..Len(w.events) :
              w.events[i].ev = "post" =>
                  \A f \in UndeclaredIn(w.events[i]) :
                      \A k \in 1..Len(w.events[i].config.extensions) :
                          LET ext == w.events[i].config.extensions[k]
                          IN ~IsGenerated(ext.val) =>
                                ExtensionPath(f, ext.key) \in touched \cap DOMAIN files

\* the positions of the arguments of execution e that stand for a seed token
SeedTokens(e) ==
    {k \in 1..Len(e.arguments) : StartsWith(Tail(ShlexSplit(e.command))[k], "$SEED")}

\* the number a string of decimal digits denotes, -1 for any other string
RECURSIVE ParseDecimal(_, _, _)
ParseDecimal(s, i, n) ==
    IF i > Len(s) THEN (IF Len(s) = 0 THEN -1 ELSE n)
    ELSE IF \E d \in 0..9 : ToString(d) = CharAt(s, i)
         THEN ParseDecimal(s, i + 1,
                           n * 10 + (CHOOSE d \in 0..9 : ToString(d) = CharAt(s, i)))
         ELSE -1

RECURSIVE ChainOutput(_, _, _, _, _)
ChainOutput(commands, i, gen_path, path, input) ==
    IF i > Len(commands) THEN input
    ELSE LET parsed == parse_command(commands[i], gen_path, path)
         IN ChainOutput(commands, i + 1, gen_path, path,
                        Output(parsed.program_path, parsed.arguments, input))

\* C15: after a successful generate, every extension file that extension
\* generation wrote next to an undeclared .in file is the output of the
\* command chain the scope's config assigns to that extension, run on the
\* .in file.
C15_ExtensionByItsOwnChain ==
    Succeeded("generate") =>
        LET w == Walked
        IN \A i \in 1..Len(w.events) :
              w.events[i].ev = "post" =>
                  \A f \in UndeclaredIn(w.events[i]) :
                      \A k \in 1..Len(w.events[i].config.extensions) :
                          LET ext == w.events[i].config.extensions[k]
                              p == ExtensionPath(f, ext.key)
                          IN (~IsGenerated(ext.val) /\ p \in touched \cap DOMAIN files) =>
                                files[p] = ChainOutput(Commands(ext.val), 1, ".",
                                                       Basename(p), files[f])

\* the files of the data tree a step has created or given a new content
Written == {p \in DOMAIN files' : p \notin DOMAIN files \/ files'[p] # files[p]}

\* the files the generators a step has executed left in their directory
Outputs ==
    UNION {DOMAIN SideFiles(ProgramName(log'[i].program_path)) :
             i \in (Len(log) + 1)..Len(log')}

\* the step taken is the unit handler of a group generator
GroupGeneratorStep ==
    /\ pc = "walking"
    /\ mode = "generate"
    /\ todo # <<>>
    /\ todo' = Tail(todo)
    /\ Head(todo).ev = "unit"
    /\ Head(todo).kind = TESTGROUP
    /\ Head(todo).gen.t # "null"

\* C16: every file the merge of a group generator puts into the data tree
\* lies under the target directory at the place the generator produced it,
\* has a dot in its name, has the extension in or an extension configured
\* "generated", and has its .in file among the files the generator produced
\* in the same directory.
C16_MergeMovesOnlyQualifying ==
    [][GroupGeneratorStep =>
          \A p \in Written :
              /\ Under(p, Head(todo).path)
              /\ LET f == SubSeq(p, Len(Head(todo).path) + 1, Len(p))
                     fname == Basename(f)
                     ext == LastExt(fname)
                 IN /\ f \in Outputs
                    /\ HasDot(fname)
                    /\ ext = "in" \/ ConfiguredGenerated(Head(todo).config, ext)
                    /\ Join(Dirname(f), DropLast(fname, Len(ext)) \o "in") \in Outputs]_vars

\* a group generator whose output holds sub/4.in, sub/4.ans and sub/5.ans
\* has been merged under a config with ans externally generated: 4.ans is in
\* the target directory, 5.ans is not
C16_Witness ==
    \E i \in 1..Len(Units) :
        LET u == Units[i]
        IN /\ u.kind = TESTGROUP
           /\ u.gen.t = "str"
           /\ ConfiguredGenerated(u.config, "ans")
           /\ <<"sub", "5.ans">> \in DOMAIN SideFiles(Head(ShlexSplit(u.gen.v)))
           /\ (u.path \o <<"sub", "4.ans">>) \in touched \cap DOMAIN files
           /\ (u.path \o <<"sub", "5.ans">>) \notin DOMAIN files
           /\ Join(u.path, "3.in") \in DOMAIN files

\* the step taken is the unit handler of a testcase with a command chain
TestcaseStep ==
    /\ pc = "walking"
    /\ mode = "generate"
    /\ todo # <<>>
    /\ todo' = Tail(todo)
    /\ Head(todo).ev = "unit"
    /\ Head(todo).kind = TESTCASE
    /\ Head(todo).gen.t # "null"

\* what the execution e wrote to its output file
OutputOf(e) == Output(e.program_path, e.arguments, e.input)

\* C17: in the step of a testcase with a chain of n commands, the commands
\* run in order, the first without input and each later one on the output
\* of the one before; when the step succeeds all n have run, the target
\* file holds the output of the last, and no other file the step wrote
\* holds the output of a command.
C17_ChainFeedsForward ==
    [][TestcaseStep =>
          LET chain == Commands(Head(todo).gen)
              first == Len(log) + 1
          IN /\ Len(log') <= Len(log) + Len(chain)
             /\ \A i \in first..Len(log') :
                   /\ log'[i].command = chain[i - Len(log)]
                   /\ log'[i].input = IF i = first THEN NoInput
                                      ELSE OutputOf(log'[i - 1])
             /\ exc' = "none" =>
                   /\ Len(log') = Len(log) + Len(chain)
                   /\ Head(todo).path \in DOMAIN files'
                   /\ files'[Head(todo).path] = OutputOf(log'[Len(log')])
                   /\ \A p \in Written \ {Head(todo).path} :
                         \A i \in first..Len(log') : files'[p] # OutputOf(log'[i])]_vars

\* a testcase with a chain of two commands has been generated: the second
\* command ran on the output of the first and the target holds its output
C17_Witness ==
    /\ exc = "none"
    /\ \E k \in 1..Len(Units) : \E i \in 1..(Len(log) - 1) :
          LET u == Units[k]
          IN /\ u.kind = TESTCASE
             /\ u.gen.t = "list"
             /\ Len(u.gen.v) = 2
             /\ log[i].call = log[i + 1].call
             /\ log[i].command = u.gen.v[1].v
             /\ log[i + 1].command = u.gen.v[2].v
             /\ log[i].input = NoInput
             /\ log[i + 1].input = OutputOf(log[i])
             /\ u.path \in DOMAIN files
             /\ files[u.path] = OutputOf(log[i + 1])

\* C18: between two steps no staging directory exists in the workspace:
\* every one a unit handler or an extension generation created is removed
\* when the step returns and when it raises.
C18_StagingRemoved ==
    \A e \in ws : e[1] # "staging-"

\* an extension generation has run its generator in a staging directory and
\* then failed with an error of the file system while publishing
C18_Witness ==
    /\ pc = "walking"
    /\ exc = "IOError"
    /\ stagings >= 1
    /\ log # <<>>
    /\ log[Len(log)].call = stagings
    /\ log[Len(log)].returncode = 0
    /\ ExtExecution(log[Len(log)])

\* the scope the call ev of the walk belongs to
ScopeOf(ev) ==
    IF ev.ev = "post" /\ NodeAt(manifest, ev.path).t = "map" THEN ev.path
    ELSE Dirname(ev.path)

\* the config entry of the scope at path, an empty mapping when it has none
ScopeConfig(path) ==
    LET node == NodeAt(manifest, path).v
    IN IF Has(node, "config") THEN Lookup(node, "config") ELSE Map(<<>>)

\* the config of the scope at path as its ancestors' config entries alone
\* determine it: the default config with the entries of the scopes from the
\* root down to path merged over it in turn
RECURSIVE ChainConfig(_)
ChainConfig(path) ==
    LET parent == IF path = <<>> THEN DEFAULT_CONFIG ELSE ChainConfig(Dirname(path))
    IN merge_keys([config |-> parent, exc |-> "none"], ScopeConfig(path).v, 1).config

\* C19: the walk leaves the default config as it was, no config object
\* changes after it was handed to a handler, and every handler gets the
\* config that the config entries of its scope's ancestors determine.
C19_MergeLeavesParent ==
    LET w == Walked
    IN /\ w.heap[1] = DEFAULT_CONFIG
       /\ \A i \in 1..Len(w.events) :
             /\ w.heap[w.events[i].ref] = w.events[i].config
             /\ w.events[i].config = ChainConfig(ScopeOf(w.events[i]))

\* a generate has succeeded on a manifest in which a group with a config
\* entry is followed by a sibling group without one, and their merged
\* configs differ
C19_Witness ==
    LET w == Walked
    IN /\ Succeeded("generate")
       /\ log # <<>>
       /\ \E i, j \in ScopeEvents(w) :
             /\ i < j
             /\ w.events[i].path # <<>>
             /\ Len(w.events[i].path) = Len(w.events[j].path)
             /\ Dirname(w.events[i].path) = Dirname(w.events[j].path)
             /\ ScopeExtensions(w.events[i].path) # <<>>
             /\ ScopeExtensions(w.events[j].path) = <<>>
             /\ w.events[i].config # w.events[j].config
             /\ w.events[j].config.extensions = ParentExtensions(w, w.events[j].path)

\* the positions of the arguments of execution e that stand for the path
\* placeholder
PathTokens(e) ==
    {k \in 1..Len(e.arguments) : Tail(ShlexSplit(e.command))[k] = "$PATH"}

\* C20: the argument that replaces the path placeholder is the target's
\* path with the extension stripped: for a target <name>.<ext> it does not
\* end in .<ext>.
C20_PathPlaceholderStripped ==
    \A i \in 1..Len(log) : \A k \in PathTokens(log[i]) :
        HasDot(log[i].target) =>
            ~EndsWith(log[i].arguments[k], "." \o LastExt(log[i].target))

\* C21: of every executed command, the arguments are as many as the tokens
\* after the program token and in their order; a token that starts with the
\* seed placeholder has become the decimal seed and nothing else, a token
\* that is neither that nor the path placeholder is passed as it is, and
\* the program token names the program, unsubstituted.
C21_TokensInterpolated ==
    \A i \in 1..Len(log) :
        LET tokens == ShlexSplit(log[i].command)
        IN /\ Len(log[i].arguments) = Len(tokens) - 1
           /\ ProgramName(log[i].program_path) = Head(tokens)
           /\ \A k \in 1..Len(log[i].arguments) :
                 IF tokens[k + 1] = "$PATH" THEN TRUE
                 ELSE IF StartsWith(tokens[k + 1], "$SEED")
                      THEN /\ ParseDecimal(log[i].arguments[k], 1, 0) >= 0
                           /\ log[i].arguments[k] = hash_command(log[i].command)
                 ELSE log[i].arguments[k] = tokens[k + 1]

\* a command with a token that starts with the seed placeholder and goes
\* on, one that ends with it, one that starts with the path placeholder and
\* goes on, and a command whose program token is the seed placeholder have
\* been executed
C21_Witness ==
    /\ \E i \in 1..Len(log) :
          LET tokens == ShlexSplit(log[i].command)
          IN /\ \E k \in 2..Len(tokens) :
                   StartsWith(tokens[k], "$SEED") /\ tokens[k] # "$SEED"
             /\ \E k \in 2..Len(tokens) :
                   EndsWith(tokens[k], "$SEED") /\ ~StartsWith(tokens[k], "$SEED")
             /\ \E k \in 2..Len(tokens) :
                   StartsWith(tokens[k], "$PATH") /\ tokens[k] # "$PATH"
    /\ \E i \in 1..Len(log) : Head(ShlexSplit(log[i].command)) = "$SEED"

\* a generate walk is under way or has ended
Generating ==
    /\ mode = "generate"
    /\ pc = "walking" \/ (pc = "exited" /\ tmpdir = "removed")

\* C22: when the engine has just finished a group of the manifest (its
\* post-order call is the last call made), the group's path is a directory
\* of the data tree and the call has not failed on the directory.
C22_GroupDirectoryEnsured ==
    Generating =>
        LET w == Walked
            n == Len(w.events) - Len(todo)
        IN (/\ n >= 1
            /\ w.events[n].ev = "post"
            /\ NodeAt(manifest, w.events[n].path).t = "map") =>
                /\ w.events[n].path \in dirs
                /\ exc # "OSError"

\* a clean walk is under way or has ended
Cleaning ==
    /\ mode = "clean"
    /\ pc = "walking" \/ (pc = "exited" /\ tmpdir = "removed")

\* the paths the cleaner tries to delete for the unit u
CleanTargets(u) ==
    IF u.kind = TESTCASE
    THEN {u.path} \cup {ExtensionPath(u.path, u.config.extensions[j].key) :
                           j \in 1..Len(u.config.extensions)}
    ELSE IF u.gen.t # "null" THEN {u.path}
    ELSE {}

\* C23: a clean walk never raises; a warning is logged only for a path
\* whose deletion failed; and when the walk has ended, every path the
\* cleaner derives from the manifest is gone or has a warning: no deletion
\* was skipped because an earlier one failed.
C23_CleanIsBestEffort ==
    /\ Cleaning => exc = "none"
    /\ Cleaning => \A p \in warnings : p \in dirs \cup DOMAIN files
    /\ Succeeded("clean") =>
          \A i \in 1..Len(Units) : \A p \in CleanTargets(Units[i]) :
              p \in dirs \cup DOMAIN files => p \in warnings

\* a clean has ended in which the deletion of one unit's path failed and
\* the file of a later unit was deleted
C23_Witness ==
    /\ Succeeded("clean")
    /\ \E i, j \in 1..Len(Units) :
          /\ i < j
          /\ Units[i].path \in warnings
          /\ Units[j].path \in DOMAIN start.files
          /\ Units[j].path \in touched
          /\ Units[j].path \notin DOMAIN files

\* the walk w calls the unit handler with this kind for path
HandledAs(w, kind, path) ==
    \E j \in 1..Len(w.events) :
        /\ w.events[j].ev = "unit"
        /\ w.events[j].kind = kind
        /\ w.events[j].path = path

\* the walk w enters path as a group and calls no unit handler for it
EnteredAsGroup(w, path) ==
    /\ \E j \in ScopeEvents(w) : w.events[j].path = path
    /\ \A j \in 1..Len(w.events) : w.events[j].ev = "unit" => w.events[j].path # path

\* C24: in every scope of a manifest the walk accepts, a key ending in .in
\* is handled as a testcase whatever its value, the key testdata.yaml as a
\* literal document, another key with a mapping value as a nested group and
\* any remaining key as a group generator.
C24_KeyClassification ==
    LET w == Walked
    IN \A i \in ScopeEvents(w) :
          LET path == w.events[i].path
              node == NodeAt(manifest, path).v
          IN \A k \in 1..Len(node) :
                node[k].key # "config" =>
                    IF EndsWith(node[k].key, ".in")
                    THEN HandledAs(w, TESTCASE, Join(path, node[k].key))
                    ELSE IF node[k].key = "testdata.yaml"
                    THEN HandledAs(w, TESTDATA_YAML, Join(path, node[k].key))
                    ELSE IF node[k].val.t = "map"
                    THEN EnteredAsGroup(w, Join(path, node[k].key))
                    ELSE HandledAs(w, TESTGROUP, Join(path, node[k].key))

\* C25: merging the config of a scope that validation accepted never
\* raises: no invocation ends with the KeyError of a deletion from the
\* parent's extensions.
C25_MergeIsTotal ==
    exc # "KeyError"

\* C26: when the last execution was the generator of an extension and it
\* exited 0, the extension generation it belongs to has not raised and the
\* file it produced is in the data tree.
C26_ExtensionGenerationCompletes ==
    (/\ Generating
     /\ log # <<>>
     /\ ExtExecution(log[Len(log)])
     /\ log[Len(log)].returncode = 0) =>
        /\ exc = "none"
        /\ \E p \in touched \cap DOMAIN files : Basename(p) = log[Len(log)].target

\* C27: when all commands of a group generator have run and exited 0, the
\* step does not raise and every file of its output that qualifies for the
\* merge is in the data tree at the same relative path under the target
\* directory, with the content the generator gave it.
C27_NestedOutputsMerged ==
    [][(/\ GroupGeneratorStep
        /\ Len(log') = Len(log) + Len(Commands(Head(todo).gen))
        /\ \A i \in (Len(log) + 1)..Len(log') : log'[i].returncode = 0) =>
          /\ exc' = "none"
          /\ \A f \in Outputs :
                adopted(f, Outputs, Head(todo).config) =>
                    (Head(todo).path \o f) \in DOMAIN files']_vars

====
